---- MODULE Spec2Model ----
(***************************************************************************)
(* Model of the Steam price-history ingestion pipeline                     *)
(* (steam_price_history.py) and of the candidate selector it shares with   *)
(* steam_collector.py.                                                     *)
(*                                                                         *)
(* These specifications are defined over one set of variables:             *)
(*   SpecStore  - write_parquet called directly with arbitrary batches,    *)
(*                one partition at a time, with I/O failures and crashes;  *)
(*   SpecSelect - get_top_apps / get_most_rated_appids over arbitrary      *)
(*                SteamSpy populations;                                    *)
(*   Spec       - one run of main(): selection, then the per-item loop;    *)
(*   FairSpec   - Spec with weak fairness of the run's single thread.      *)
(*                                                                         *)
(* A timestamp is an integer YYYYMM, so that its year is timestamp \div    *)
(* 100.  A price record carries, besides the key fields timestamp and      *)
(* shop_id, the field price_usd; regular_usd, cut_pct and shop_name travel *)
(* through the code exactly as price_usd does and are not represented.     *)
(***************************************************************************)
EXTENDS Integers, Sequences, FiniteSets, TLC

\* ------------------------------------------------------------------ bounds
NumApps    == 2    \* appids are 1..NumApps
MaxReviews == 1    \* positive and negative review counts are 0..MaxReviews
MaxBatch   == 2    \* longest record batch handed to write_parquet in SpecStore
MaxAppends == 3    \* calls of append_rows_safe on one path in SpecCsv

\* --------------------------------------------------------- program constants
STEAM_SHOP_ID == 61

AppIds == 1..NumApps

\* ------------------------------------------------------------------ records
\* Normalised price records as get_price_history builds them.
\*   R1, R2 : same (timestamp, shop_id), different price
\*   R3     : same timestamp as R1, another shop (a run with --all-shops)
\*   R4     : other year
R1 == [timestamp |-> 202301, shop_id |-> STEAM_SHOP_ID, price_usd |-> 1]
R2 == [timestamp |-> 202301, shop_id |-> STEAM_SHOP_ID, price_usd |-> 2]
R3 == [timestamp |-> 202301, shop_id |-> 35,            price_usd |-> 1]
R4 == [timestamp |-> 202401, shop_id |-> STEAM_SHOP_ID, price_usd |-> 1]

Records == {R1, R2, R3, R4}

RECURSIVE SeqsUpTo(_, _)
SeqsUpTo(S, n) ==
    IF n = 0 THEN {<<>>}
    ELSE LET shorter == SeqsUpTo(S, n - 1)
         IN  shorter \cup {Append(s, x) : s \in {t \in shorter : Len(t) = n - 1}, x \in S}

Batches == SeqsUpTo(Records, MaxBatch)

\* df["timestamp"].dt.year
YearOf(ts) == ts \div 100

Years == {YearOf(r.timestamp) : r \in Records}

\* os.path.join(output_dir, f"year={year}", f"id={appid}"): the address of a
\* partition is the pair <<year, appid>>.
PartitionPath(year, appid) == <<year, appid>>

Addresses == {PartitionPath(y, a) : y \in Years, a \in AppIds}

\* ------------------------------------------------------------- file system
\* What is found at <address>/data.parquet.
NoDir      == [kind |-> "nodir",   rows |-> <<>>]   \* directory not created
NoFile     == [kind |-> "nofile",  rows |-> <<>>]   \* directory without data.parquet
Partial    == [kind |-> "partial", rows |-> <<>>]   \* opened for writing, not completed
Parquet(rows) == [kind |-> "parquet", rows |-> rows]

EmptyDisk == [addr \in Addresses |-> NoDir]

\* os.path.exists(out_file)
Exists(file) == file.kind \in {"partial", "parquet"}

VARIABLES
    disk,        \* address -> content of data.parquet
    wp_pc,       \* position inside write_parquet
    wp_appid,    \* argument appid
    wp_records,  \* argument records
    wp_df,       \* df, with the appid and year columns
    wp_years,    \* the groups of df.groupby("year") not yet handled, ascending
    wp_group,    \* the frame about to be written for the current group
    wp_written,  \* local counter written
    disk0,       \* history: disk when the current call started
    repeat,      \* history: this call repeats the arguments of the previous,
                 \*          successful, call
    rerun,       \* history: the call repeats the arguments of a call that raised
    in_cycle,    \* history: the addresses read for a merge and not yet written back
    calls        \* harness: "none", "one" or "two" calls made so far

VARIABLES
    population,  \* SteamSpy's answer: entries in the order of the JSON object
    top_n,       \* the limit n (args.top_n)
    apps,        \* the list the selector returned
    sel_pc       \* "start", the selector that has returned, or "unavailable"

VARIABLES
    pc,               \* position of main()
    idx,              \* index in apps of the candidate of the current iteration
    stats,            \* the dict stats
    skip_game_check,  \* args.skip_game_check
    visited,          \* history: the appids the loop has taken, in order
    log,              \* history: per iteration, what each stage got or did
    disk_start,       \* history: disk when the run started
    last_call,        \* the function that made the latest outbound call
    slept,            \* time slept since that call ended, up to DelayUnits
    gap               \* history: for the latest call, the call before it
                      \* and the time slept between the two

VARIABLES
    rt_session,   \* the session the call goes through
    rt_stage,     \* the function that makes the call
    rt_has_retry, \* urllib3's Retry could be imported
    rt_left,      \* retries the adapter may still make
    rt_trace,     \* history: how each attempt of the call ended
    rt_pc,        \* "send", "responded", "raised" or "done"
    rt_result     \* how the calling function ends: "value" or "exception"

storeVars == <<disk, wp_pc, wp_appid, wp_records, wp_df, wp_years, wp_group,
               wp_written, disk0, repeat, rerun, calls, in_cycle>>

selVars == <<population, top_n, apps, sel_pc>>

mainVars == <<pc, idx, stats, skip_game_check, visited, log, disk_start,
              last_call, slept, gap>>

VARIABLES
    csv_file,     \* the file at path
    csv_bak,      \* the file at path + '.bak'
    csv_header,   \* header of the latest call of append_rows_safe
    csv_rows,     \* rows of the latest call
    csv_before,   \* history: the file at path when the latest call started
    csv_result,   \* "none", or how the latest call ended: "returned", "raised"
    csv_calls     \* calls made so far

csvVars == <<csv_file, csv_bak, csv_header, csv_rows, csv_before, csv_result,
             csv_calls>>

rtVars == <<rt_session, rt_stage, rt_has_retry, rt_left, rt_trace, rt_pc, rt_result>>

vars == <<storeVars, selVars, mainVars, rtVars, csvVars>>

\* ------------------------------------------------------------- CSV files
\* A path holds no file, or a file of lines; a line is the list of its cells.
NoCsv == [exists |-> FALSE, lines |-> <<>>]

Csv(lines) == [exists |-> TRUE, lines |-> lines]

CsvIdle ==
    /\ csv_file = NoCsv
    /\ csv_bak = NoCsv
    /\ csv_header = <<>>
    /\ csv_rows = <<>>
    /\ csv_before = NoCsv
    /\ csv_result = "none"
    /\ csv_calls = 0

\* --------------------------------------------------------------- sessions
\* Retry(total=...) of make_session and the default of get_session.
RetryTotalPriceHistory == 4
RetryTotalCollector    == 3

RetryIdle ==
    /\ rt_session = "none"
    /\ rt_stage = "none"
    /\ rt_has_retry = FALSE
    /\ rt_left = 0
    /\ rt_trace = <<>>
    /\ rt_pc = "idle"
    /\ rt_result = "none"

\* --------------------------------------------------------------- selection
\* One entry of SteamSpy's request=all answer.
Entries == [appid : AppIds, positive : 0..MaxReviews, negative : 0..MaxReviews]

\* The keys of a JSON object are distinct.
Populations ==
    {p \in SeqsUpTo(Entries, NumApps) :
        \A i, j \in 1..Len(p) : p[i].appid = p[j].appid => i = j}

Limits == (0 - 1)..(NumApps + 1)

\* Lines 93-104: the list apps before it is sorted.
AppList(data) ==
    [i \in 1..Len(data) |->
        [appid |-> data[i].appid,
         total_reviews |-> data[i].positive + data[i].negative]]

\* list.sort(key=total_reviews) without reverse=True.
RECURSIVE SortByReviewsAsc(_)
SortByReviewsAsc(list) ==
    IF list = <<>> THEN <<>>
    ELSE LET init == SortByReviewsAsc(SubSeq(list, 1, Len(list) - 1))
             last == list[Len(list)]
             k    == Cardinality({i \in 1..Len(init) :
                                    init[i].total_reviews <= last.total_reviews})
         IN  SubSeq(init, 1, k) \o <<last>> \o SubSeq(init, k + 1, Len(init))

\* list.sort(key=total_reviews, reverse=True): descending and stable, so
\* entries with equal keys keep the order they had.
RECURSIVE SortByReviewsDesc(_)
SortByReviewsDesc(list) ==
    IF list = <<>> THEN <<>>
    ELSE LET init == SortByReviewsDesc(SubSeq(list, 1, Len(list) - 1))
             last == list[Len(list)]
             k    == Cardinality({i \in 1..Len(init) :
                                    init[i].total_reviews >= last.total_reviews})
         IN  SubSeq(init, 1, k) \o <<last>> \o SubSeq(init, k + 1, Len(init))

Min(a, b) == IF a <= b THEN a ELSE b
Max(a, b) == IF a >= b THEN a ELSE b

\* list[:n] of Python: a negative n counts from the end.
SliceTo(list, n) ==
    IF n >= 0
    THEN SubSeq(list, 1, Min(n, Len(list)))
    ELSE SubSeq(list, 1, Max(Len(list) + n, 0))

\* steam_price_history.get_top_apps, once the population is fetched.
get_top_apps(data, n) == SliceTo(SortByReviewsDesc(AppList(data)), n)

\* steam_collector.get_most_rated_appids, once the population is fetched.
get_most_rated_appids(data, n) ==
    IF n <= 0 THEN <<>> ELSE SliceTo(SortByReviewsDesc(AppList(data)), n)

SelIdle ==
    /\ population = <<>>
    /\ top_n = 0
    /\ apps = <<>>
    /\ sel_pc = "start"

\* ------------------------------------------------------------------- main
\* Line 266: stats as main() creates it.
ZeroStats ==
    [procesados |-> 0, sin_itad_id |-> 0, sin_historial |-> 0,
     parquets_escritos |-> 0, errores |-> 0]

\* args.delay and args.delay * 0.5, in units of half a delay.
DelayUnits     == 2
HalfDelayUnits == 1

NoGap == [from |-> "none", slept |-> 0]

PaceInit ==
    /\ last_call = "none"
    /\ slept = 0
    /\ gap = NoGap

\* An outbound call by function name, followed by a sleep of `after`.
OutboundCall(name, after) ==
    /\ gap' = [from |-> last_call, slept |-> slept]
    /\ last_call' = name
    /\ slept' = after

\* time.sleep(units) with no call in the step.
PaceSleep(units) ==
    /\ slept' = Min(DelayUnits, slept + units)
    /\ UNCHANGED <<last_call, gap>>

NoPace == UNCHANGED <<last_call, slept, gap>>

MainIdle ==
    /\ pc = "idle"
    /\ idx = 1
    /\ stats = ZeroStats
    /\ skip_game_check = FALSE
    /\ visited = <<>>
    /\ log = <<>>
    /\ disk_start = EmptyDisk
    /\ PaceInit

\* ----------------------------------------------------------- write_parquet
\* pd.DataFrame(records); df["appid"] = appid; df["year"] = df["timestamp"].dt.year
DataFrame(appid, records) ==
    [i \in 1..Len(records) |->
        [timestamp |-> records[i].timestamp,
         shop_id   |-> records[i].shop_id,
         price_usd |-> records[i].price_usd,
         appid     |-> appid,
         year      |-> YearOf(records[i].timestamp)]]

RECURSIVE SortedSeq(_)
SortedSeq(S) ==
    IF S = {} THEN <<>>
    ELSE LET m == CHOOSE x \in S : \A y \in S : x <= y
         IN  <<m>> \o SortedSeq(S \ {m})

\* The keys df.groupby("year") iterates over, in ascending order.
GroupKeys(df) == SortedSeq({df[i].year : i \in 1..Len(df)})

GroupOfWhole(df, year) == df

\* The rows of one group, in frame order.
GroupOf(df, year) == SelectSeq(df, LAMBDA r : r.year = year)

DedupKey(r) == <<r.timestamp, r.shop_id>>

RECURSIVE DropDuplicatesKeepLast(_)
DropDuplicatesKeepLast(rows) ==
    IF rows = <<>> THEN <<>>
    ELSE LET rest == Tail(rows)
         IN  IF \E i \in 1..Len(rest) : DedupKey(rest[i]) = DedupKey(Head(rows))
             THEN DropDuplicatesKeepLast(rest)
             ELSE <<Head(rows)>> \o DropDuplicatesKeepLast(rest)

\* DataFrame.drop_duplicates(subset=["timestamp", "shop_id"]): keep = "first".
RECURSIVE DropDuplicates(_)
DropDuplicates(rows) ==
    IF rows = <<>> THEN <<>>
    ELSE LET init == DropDuplicates(SubSeq(rows, 1, Len(rows) - 1))
             last == rows[Len(rows)]
         IN  IF \E i \in 1..Len(init) : DedupKey(init[i]) = DedupKey(last)
             THEN init
             ELSE Append(init, last)

MergeOverwrite(file, group) == group

\* Lines 219-222: what is written for a group, given the file found.
Merge(file, group) ==
    IF file.kind = "parquet"
    THEN DropDuplicates(file.rows \o group)
    ELSE group

CurrentAddr == PartitionPath(Head(wp_years), wp_appid)

\* Lines 219-222: the file of addr is looked up and read for the merge.
CycleOpen(cycles, addr) == Append(cycles, addr)

CycleCloseNever(cycles, addr) == cycles

\* Line 224: to_parquet has written the merged group back, or has raised,
\* before the loop or the caller goes on.
CycleClose(cycles, addr) == SelectSeq(cycles, LAMBDA a : a # addr)

IsEmptyBatchNever(records) == FALSE

\* Line 206: not records.
IsEmptyBatch(records) == records = <<>>

\* Lines 205-213: the call, up to the head of the loop.  Past the guard of
\* line 206 a frame of no rows has no "timestamp" column, and line 211
\* raises KeyError.
WpCall(appid, records) ==
    /\ wp_appid' = appid
    /\ wp_records' = records
    /\ disk0' = disk
    /\ wp_group' = <<>>
    /\ wp_written' = 0
    /\ IF IsEmptyBatch(records)
       THEN /\ wp_pc' = "ret"
            /\ wp_df' = <<>>
            /\ wp_years' = <<>>
       ELSE IF records = <<>>
       THEN /\ wp_pc' = "exc"
            /\ wp_df' = <<>>
            /\ wp_years' = <<>>
       ELSE /\ wp_pc' = "loop"
            /\ wp_df' = DataFrame(appid, records)
            /\ wp_years' = GroupKeys(DataFrame(appid, records))
    /\ UNCHANGED <<disk, in_cycle>>

\* Lines 214-222: next group; makedirs, exists, read_parquet, concat,
\* drop_duplicates.  read_parquet raises on a file that is not complete.
WpGroup ==
    /\ wp_pc = "loop"
    /\ wp_years # <<>>
    /\ LET file  == disk[CurrentAddr]
           group == GroupOf(wp_df, Head(wp_years))
       IN  /\ disk' = [disk EXCEPT ![CurrentAddr] =
                          IF file.kind = "nodir" THEN NoFile ELSE file]
           /\ IF file.kind = "partial"
              THEN /\ wp_pc' = "exc"
                   /\ UNCHANGED wp_group
              ELSE /\ wp_pc' = "to_parquet"
                   /\ wp_group' = Merge(file, group)
    /\ UNCHANGED <<wp_appid, wp_records, wp_df, wp_years, wp_written, disk0,
                   repeat, rerun, calls>>
    /\ in_cycle' = IF disk[CurrentAddr].kind = "partial" THEN in_cycle
                   ELSE CycleOpen(in_cycle, CurrentAddr)

\* Line 224, first half: to_parquet opens out_file for writing, which
\* truncates it in place.
WpOpen ==
    /\ wp_pc = "to_parquet"
    /\ disk' = [disk EXCEPT ![CurrentAddr] = Partial]
    /\ wp_pc' = "writing"
    /\ UNCHANGED <<wp_appid, wp_records, wp_df, wp_years, wp_group, wp_written,
                   disk0, repeat, rerun, calls, in_cycle>>

\* Line 224: the open fails (permission, no space for a new file).
WpOpenFail ==
    /\ wp_pc = "to_parquet"
    /\ wp_pc' = "exc"
    /\ UNCHANGED <<disk, wp_appid, wp_records, wp_df, wp_years, wp_group,
                   wp_written, disk0, repeat, rerun, calls>>
    /\ in_cycle' = CycleClose(in_cycle, CurrentAddr)

\* Lines 224-225, second half: the rows and the footer are written, the file
\* is closed; written += 1.
WpFlush ==
    /\ wp_pc = "writing"
    /\ disk' = [disk EXCEPT ![CurrentAddr] = Parquet(wp_group)]
    /\ wp_written' = wp_written + 1
    /\ wp_years' = Tail(wp_years)
    /\ wp_pc' = "loop"
    /\ UNCHANGED <<wp_appid, wp_records, wp_df, wp_group, disk0, repeat, rerun, calls>>
    /\ in_cycle' = CycleClose(in_cycle, CurrentAddr)

\* Line 224: the write fails part-way (disk full); the file stays as it is.
WpFlushFail ==
    /\ wp_pc = "writing"
    /\ wp_pc' = "exc"
    /\ UNCHANGED <<disk, wp_appid, wp_records, wp_df, wp_years, wp_group,
                   wp_written, disk0, repeat, rerun, calls>>
    /\ in_cycle' = CycleClose(in_cycle, CurrentAddr)

\* Line 227: return written.
WpReturn ==
    /\ wp_pc = "loop"
    /\ wp_years = <<>>
    /\ wp_pc' = "ret"
    /\ UNCHANGED <<disk, wp_appid, wp_records, wp_df, wp_years, wp_group,
                   wp_written, disk0, repeat, rerun, calls, in_cycle>>

WpStep == WpGroup \/ WpOpen \/ WpOpenFail \/ WpFlush \/ WpFlushFail \/ WpReturn

\* The process is killed (signal, power loss) inside write_parquet.
Crash ==
    /\ wp_pc \in {"loop", "to_parquet", "writing"}
    /\ wp_pc' = "crashed"
    /\ UNCHANGED <<disk, wp_appid, wp_records, wp_df, wp_years, wp_group,
                   wp_written, disk0, repeat, rerun, calls>>
    /\ in_cycle' = <<>>

\* ------------------------------------------------------------- SpecStore
StoreInit ==
    /\ disk = EmptyDisk
    /\ wp_pc = "idle"
    /\ wp_appid = 0
    /\ wp_records = <<>>
    /\ wp_df = <<>>
    /\ wp_years = <<>>
    /\ wp_group = <<>>
    /\ wp_written = 0
    /\ disk0 = EmptyDisk
    /\ repeat = FALSE
    /\ rerun = FALSE
    /\ in_cycle = <<>>
    /\ calls = "none"
    /\ SelIdle
    /\ MainIdle
    /\ RetryIdle
    /\ CsvIdle

\* A caller (a run of the pipeline, or a test) calls write_parquet.
StoreCall(appid, records) ==
    /\ WpCall(appid, records)
    /\ repeat' = (wp_pc = "ret" /\ appid = wp_appid /\ records = wp_records)
    /\ rerun' = (wp_pc = "exc" /\ appid = wp_appid /\ records = wp_records)

StoreFirstCall ==
    /\ wp_pc = "idle"
    /\ calls = "none"
    /\ \E appid \in AppIds, records \in Batches : StoreCall(appid, records)
    /\ calls' = "one"

\* The caller, or a new process after a crash, calls again on the same
\* output directory.
StoreSecondCall ==
    /\ wp_pc \in {"ret", "exc", "crashed"}
    /\ calls = "one"
    /\ \E appid \in AppIds, records \in Batches : StoreCall(appid, records)
    /\ calls' = "two"

StoreNext ==
    /\ StoreFirstCall \/ StoreSecondCall \/ WpStep \/ Crash
    /\ UNCHANGED <<selVars, mainVars, rtVars, csvVars>>

SpecStore == StoreInit /\ [][StoreNext]_vars

\* ------------------------------------------------- claims on the merge store
RowSet(file) == {file.rows[i] : i \in 1..Len(file.rows)}

\* The uniqueness key of a stored row.
RowKey(row) == <<row.timestamp, row.shop_id, row.appid>>

StoredKeys(file) == {RowKey(file.rows[i]) : i \in 1..Len(file.rows)}

BatchKeysAt(appid, records, addr) ==
    {RowKey(row) : row \in {r \in RowSet([rows |-> DataFrame(appid, records)]) :
                              PartitionPath(r.year, r.appid) = addr}}

\* C1 (as claimed): when write_parquet has returned from a call whose
\* arguments repeat those of the call before it, which had returned too,
\* every partition holds the same set of rows as after that first call.
C1_Idempotence ==
    (wp_pc = "ret" /\ repeat) =>
        \A addr \in Addresses :
            /\ disk[addr].kind = disk0[addr].kind
            /\ RowSet(disk[addr]) = RowSet(disk0[addr])

\* C2 (as claimed): no partition file holds two rows with the same
\* (timestamp, shop_id, native_id).
C2_DedupCorrect ==
    \A addr \in Addresses :
        disk[addr].kind = "parquet" =>
            \A i, j \in 1..Len(disk[addr].rows) :
                RowKey(disk[addr].rows[i]) = RowKey(disk[addr].rows[j]) => i = j

\* C3: no file that existed when a call started is missing at any later point
\* of the call; and when write_parquet returns, every key stored when the call
\* started and every key of the batch is stored in the partition of its year.
C3_NoDataLoss ==
    /\ \A addr \in Addresses : Exists(disk0[addr]) => Exists(disk[addr])
    /\ wp_pc = "ret" =>
          \A addr \in Addresses :
              /\ StoredKeys(disk0[addr]) \subseteq StoredKeys(disk[addr])
              /\ BatchKeysAt(wp_appid, wp_records, addr) \subseteq StoredKeys(disk[addr])

\* A call returned after folding a batch with a new key into a partition that
\* already held rows.
C3_Witness ==
    /\ wp_pc = "ret"
    /\ \E addr \in Addresses :
          /\ disk0[addr].kind = "parquet"
          /\ StoredKeys(disk0[addr]) # {}
          /\ StoredKeys(disk0[addr]) # StoredKeys(disk[addr])
          /\ BatchKeysAt(wp_appid, wp_records, addr) # {}

\* C4: every row stored at year=Y/id=A has a timestamp of year Y, the year
\* column Y and the appid column A.
C4_PartitionRouting ==
    \A addr \in Addresses :
        \A row \in RowSet(disk[addr]) :
            /\ PartitionPath(YearOf(row.timestamp), row.appid) = addr
            /\ row.year = addr[1]

\* One call wrote two partitions of one appid while another appid has a
\* partition too.
C4_Witness ==
    /\ wp_pc = "ret"
    /\ wp_written = 2
    /\ \E addr \in Addresses :
          addr[2] # wp_appid /\ disk[addr].kind = "parquet"

\* C5 (as claimed): no call to write_parquet ever leaves, at any point a
\* reader or a crash can fall on, a data.parquet that is opened for writing
\* but not completed.
C5_AtomicReplace ==
    \A addr \in Addresses :
        disk[addr].kind = "partial" => disk0[addr].kind = "partial"

\* ------------------------------------------------------------ SpecSelect
StoreIdle ==
    /\ disk = EmptyDisk
    /\ wp_pc = "idle"
    /\ wp_appid = 0
    /\ wp_records = <<>>
    /\ wp_df = <<>>
    /\ wp_years = <<>>
    /\ wp_group = <<>>
    /\ wp_written = 0
    /\ disk0 = EmptyDisk
    /\ repeat = FALSE
    /\ rerun = FALSE
    /\ in_cycle = <<>>
    /\ calls = "none"

SelectInit ==
    /\ population \in Populations
    /\ top_n \in Limits
    /\ apps = <<>>
    /\ sel_pc = "start"
    /\ StoreIdle
    /\ MainIdle
    /\ RetryIdle
    /\ CsvIdle

CallGetTopApps ==
    /\ sel_pc = "start"
    /\ apps' = get_top_apps(population, top_n)
    /\ sel_pc' = "get_top_apps"
    /\ UNCHANGED <<population, top_n>>

CallGetMostRated ==
    /\ sel_pc = "start"
    /\ apps' = get_most_rated_appids(population, top_n)
    /\ sel_pc' = "get_most_rated_appids"
    /\ UNCHANGED <<population, top_n>>

SelectNext ==
    /\ CallGetTopApps \/ CallGetMostRated
    /\ UNCHANGED <<storeVars, mainVars, rtVars, csvVars>>

SpecSelect == SelectInit /\ [][SelectNext]_vars

\* ---------------------------------------------------- claims on selection
\* C9 (as claimed): the list returned is ordered by total reviews
\* descending, and entries with equal totals by appid ascending.
C9_DeterministicOrder ==
    sel_pc # "start" =>
        \A i, j \in 1..Len(apps) :
            i < j =>
                \/ apps[i].total_reviews > apps[j].total_reviews
                \/ /\ apps[i].total_reviews = apps[j].total_reviews
                   /\ apps[i].appid < apps[j].appid

Total(e) == e.positive + e.negative

\* C10: for a limit of at least 1 the selector returns min(limit, size of the
\* population) entries, all distinct entries of the population with their
\* totals, in descending order of total, and no entry left out has a higher
\* total than an entry returned.
C10_SelectionSize ==
    (sel_pc # "start" /\ top_n >= 1) =>
        /\ Len(apps) = Min(top_n, Len(population))
        /\ \A i, j \in 1..Len(apps) :
              /\ apps[i].appid = apps[j].appid => i = j
              /\ i < j => apps[i].total_reviews >= apps[j].total_reviews
        /\ \A i \in 1..Len(apps) :
              \E k \in 1..Len(population) :
                  /\ population[k].appid = apps[i].appid
                  /\ Total(population[k]) = apps[i].total_reviews
        /\ \A k \in 1..Len(population) :
              (\A i \in 1..Len(apps) : apps[i].appid # population[k].appid) =>
                  \A i \in 1..Len(apps) :
                      apps[i].total_reviews >= Total(population[k])

\* The limit cut the population, and the entry listed first by the source
\* was left out in favour of a later one with more reviews.
C10_Witness ==
    /\ sel_pc # "start"
    /\ top_n >= 1
    /\ top_n < Len(population)
    /\ Len(apps) = top_n
    /\ \A i \in 1..Len(apps) : apps[i].appid # population[1].appid

\* -------------------------------------------------------------------- Spec
\* One run of main() of steam_price_history.py.

\* What the run is given: populations of at most two entries without
\* negative reviews, the limits up to 2, and these answers of the history
\* source.
MainPopulations ==
    {p \in Populations :
        /\ Len(p) <= 2
        /\ \A i \in 1..Len(p) : p[i].negative = 0 /\ p[i].positive <= 1}

MainLimits == {0 - 1, 0, 1, 2}

MainBatches == {<<>>, <<R1>>, <<R1, R2>>, <<R3, R4>>}

\* An output directory left by an earlier run that crashed while writing.
PriorDisk ==
    [addr \in Addresses |->
        IF addr = PartitionPath(2023, 1) THEN Parquet(DataFrame(1, <<R2>>))
        ELSE IF addr = PartitionPath(2024, 1) THEN Partial
        ELSE NoDir]

\* What SESSION.get of a stage ends with, as the stage sees it: a response
\* (by status and body) or an exception (network failure, retries used up).
GameOutcomes   == {"game", "not_game", "non200", "exception"}
LookupOutcomes == {"found", "not_found", "status_4xx", "status_5xx", "exception"}
FetchOutcomes  == {"body", "not_iterable", "non200", "exception"}

\* Lines 114-128: is_game.
is_game(outcome) == outcome = "game"

HasItadIdAlways(outcome) == TRUE

\* Lines 134-149: get_itad_id returns an id (and not None).
HasItadId(outcome) == outcome = "found"

NewLogEntry ==
    [game |-> "none", lookup |-> "none", fetch |-> "none", records |-> <<>>,
     store |-> "none", trail |-> <<>>]

MainInit ==
    /\ pc = "start"
    /\ idx = 1
    /\ stats = ZeroStats
    /\ skip_game_check \in BOOLEAN
    /\ visited = <<>>
    /\ log = <<>>
    /\ disk_start \in {EmptyDisk, PriorDisk}
    /\ PaceInit
    /\ population \in MainPopulations
    /\ top_n \in MainLimits
    /\ apps = <<>>
    /\ sel_pc = "start"
    /\ disk = disk_start
    /\ disk0 = disk_start
    /\ wp_pc = "idle"
    /\ wp_appid = 0
    /\ wp_records = <<>>
    /\ wp_df = <<>>
    /\ wp_years = <<>>
    /\ wp_group = <<>>
    /\ wp_written = 0
    /\ repeat = FALSE
    /\ rerun = FALSE
    /\ in_cycle = <<>>
    /\ calls = "none"
    /\ RetryIdle
    /\ CsvIdle

wpLocals == <<wp_pc, wp_appid, wp_records, wp_df, wp_years, wp_group, wp_written, disk0>>

\* Lines 264-267: the population is fetched and the candidates selected.
MainSelect ==
    /\ pc = "start"
    /\ apps' = get_top_apps(population, top_n)
    /\ sel_pc' = "get_top_apps"
    /\ pc' = "loop"
    /\ UNCHANGED <<population, top_n, idx, stats, skip_game_check, visited, log,
                   disk_start, disk, wpLocals, repeat, rerun, calls, in_cycle>>
    /\ UNCHANGED <<rtVars, csvVars>>
    /\ OutboundCall("get_top_apps", 0)

\* Lines 89-90: the request fails or raise_for_status raises; nothing in
\* main() catches it.
PcAfterSourceFailureSwallowed == "loop"

\* Where main() is once get_top_apps has raised: out, with the exception.
PcAfterSourceFailure == "aborted"

MainSourceUnavailable ==
    /\ pc = "start"
    /\ sel_pc' = "unavailable"
    /\ pc' = PcAfterSourceFailure
    /\ UNCHANGED <<population, top_n, apps, idx, stats, skip_game_check,
                   visited, log, disk_start, disk, wpLocals, repeat, rerun, calls, in_cycle>>
    /\ UNCHANGED <<rtVars, csvVars>>
    /\ OutboundCall("get_top_apps", 0)

\* Lines 269-272: the loop takes the next candidate.
MainLoop ==
    /\ pc = "loop"
    /\ idx <= Len(apps)
    /\ visited' = Append(visited, apps[idx].appid)
    /\ log' = Append(log, NewLogEntry)
    /\ pc' = IF skip_game_check THEN "lookup" ELSE "game_check"
    /\ UNCHANGED <<selVars, idx, stats, skip_game_check, disk_start, disk,
                   wpLocals, repeat, rerun, calls, in_cycle>>
    /\ UNCHANGED <<rtVars, csvVars>>
    /\ NoPace

\* Lines 307-315: the loop is over; the summary is logged.
MainSummary ==
    /\ pc = "loop"
    /\ idx > Len(apps)
    /\ pc' = "done"
    /\ UNCHANGED <<selVars, idx, stats, skip_game_check, visited, log,
                   disk_start, disk, wpLocals, repeat, rerun, calls, in_cycle>>
    /\ UNCHANGED <<rtVars, csvVars>>
    /\ NoPace

\* Lines 274-279.
MainGameCheck ==
    /\ pc = "game_check"
    /\ \E outcome \in GameOutcomes :
          /\ log' = [log EXCEPT ![idx].game = outcome,
                                ![idx].trail = Append(@, "game_check")]
          /\ IF is_game(outcome)
             THEN pc' = "lookup" /\ idx' = idx
             ELSE pc' = "loop" /\ idx' = idx + 1
    /\ UNCHANGED <<selVars, stats, skip_game_check, visited, disk_start, disk,
                   wpLocals, repeat, rerun, calls, in_cycle>>
    /\ UNCHANGED <<rtVars, csvVars>>
    /\ OutboundCall("is_game", HalfDelayUnits)

CountNoIdentityAsError(s) == [s EXCEPT !.errores = @ + 1]

CountNoIdentity(s) == [s EXCEPT !.sin_itad_id = @ + 1]

\* Lines 281-286.
MainLookup ==
    /\ pc = "lookup"
    /\ \E outcome \in LookupOutcomes :
          /\ log' = [log EXCEPT ![idx].lookup = outcome,
                                ![idx].trail = Append(@, "lookup")]
          /\ OutboundCall("get_itad_id",
                          IF HasItadId(outcome) THEN 0 ELSE DelayUnits)
          /\ IF HasItadId(outcome)
             THEN pc' = "fetch" /\ idx' = idx /\ stats' = stats
             ELSE pc' = "loop" /\ idx' = idx + 1 /\ stats' = CountNoIdentity(stats)
    /\ UNCHANGED <<selVars, skip_game_check, visited, disk_start, disk,
                   wpLocals, repeat, rerun, calls, in_cycle>>
    /\ UNCHANGED <<rtVars, csvVars>>

\* Lines 155-199: what get_price_history returns for an outcome of its
\* request; body is the list the entries of a 200 answer normalise to.
PriceHistory(outcome, body) == IF outcome = "body" THEN body ELSE <<>>

\* Lines 288-297: get_price_history, then either the no-history skip or the
\* call of write_parquet.  A 200 answer whose JSON is not iterable makes the
\* loop of line 180 raise.
MainFetch ==
    /\ pc = "fetch"
    /\ \E outcome \in FetchOutcomes, body \in MainBatches :
          /\ outcome # "body" => body = <<>>
          /\ LET records == PriceHistory(outcome, body)
             IN  /\ log' = [log EXCEPT
                            ![idx].fetch = outcome,
                            ![idx].records = records,
                            ![idx].trail =
                                IF outcome # "not_iterable" /\ records # <<>>
                                THEN @ \o <<"fetch", "merge">>
                                ELSE Append(@, "fetch")]
                 /\ OutboundCall("get_price_history",
                                 IF outcome # "not_iterable" /\ records = <<>>
                                 THEN DelayUnits ELSE 0)
                 /\ IF outcome = "not_iterable"
                    THEN /\ pc' = "except"
                         /\ UNCHANGED <<idx, stats, wpLocals, disk>>
                    ELSE IF records = <<>>
                    THEN /\ pc' = "loop"
                         /\ idx' = idx + 1
                         /\ stats' = [stats EXCEPT !.sin_historial = @ + 1]
                         /\ UNCHANGED <<wpLocals, disk>>
                    ELSE /\ pc' = "write"
                         /\ WpCall(apps[idx].appid, records)
                         /\ UNCHANGED <<idx, stats>>
    /\ UNCHANGED <<selVars, skip_game_check, visited, disk_start, repeat, rerun, calls, in_cycle>>
    /\ UNCHANGED <<rtVars, csvVars>>

\* Line 297: write_parquet runs.
MainWriteParquet ==
    /\ pc = "write"
    /\ WpStep
    /\ log' = [log EXCEPT ![idx].store =
                  IF wp_pc' = "ret" THEN "returned"
                  ELSE IF wp_pc' = "exc" THEN "raised" ELSE @]
    /\ UNCHANGED <<selVars, pc, idx, stats, skip_game_check, visited, disk_start>>
    /\ UNCHANGED <<rtVars, csvVars>>
    /\ NoPace

CountWrittenPartitionsOnly(s, written) ==
    [s EXCEPT !.parquets_escritos = @ + written]

\* Lines 298-299.
CountWritten(s, written) ==
    [s EXCEPT !.parquets_escritos = @ + written, !.procesados = @ + 1]

\* Lines 297-299 and 305: write_parquet has returned.
MainWritten ==
    /\ pc = "write"
    /\ wp_pc = "ret"
    /\ stats' = CountWritten(stats, wp_written)
    /\ idx' = idx + 1
    /\ pc' = "loop"
    /\ wp_pc' = "idle"
    /\ UNCHANGED <<selVars, skip_game_check, visited, log, disk_start, disk,
                   wp_appid, wp_records, wp_df, wp_years, wp_group, wp_written,
                   disk0, repeat, rerun, calls, in_cycle>>
    /\ UNCHANGED <<rtVars, csvVars>>
    /\ PaceSleep(DelayUnits)

CountErrorNot(s) == s

CountError(s) == [s EXCEPT !.errores = @ + 1]

\* Lines 301-305: an exception of the iteration reaches the handler.
MainExcept ==
    /\ \/ pc = "except"
       \/ pc = "write" /\ wp_pc = "exc"
    /\ stats' = CountError(stats)
    /\ idx' = idx + 1
    /\ pc' = "loop"
    /\ wp_pc' = "idle"
    /\ UNCHANGED <<selVars, skip_game_check, visited, log, disk_start, disk,
                   wp_appid, wp_records, wp_df, wp_years, wp_group, wp_written,
                   disk0, repeat, rerun, calls, in_cycle>>
    /\ UNCHANGED <<rtVars, csvVars>>
    /\ PaceSleep(DelayUnits)

Next ==
    \/ MainSelect
    \/ MainSourceUnavailable
    \/ MainLoop
    \/ MainSummary
    \/ MainGameCheck
    \/ MainLookup
    \/ MainFetch
    \/ MainWriteParquet
    \/ MainWritten
    \/ MainExcept

Spec == MainInit /\ [][Next]_vars

\* main() is one sequential thread whose every step ends: the requests have
\* timeouts and a bounded number of retries, the sleeps are finite.
FairSpec == Spec /\ WF_vars(Next)

\* --------------------------------------------------- claims on the run
\* What a call of write_parquet that returns leaves on a disk d.
RECURSIVE WriteGroups(_, _, _, _)
WriteGroups(d, appid, df, years) ==
    IF years = <<>> THEN d
    ELSE LET addr == PartitionPath(Head(years), appid)
         IN  WriteGroups([d EXCEPT ![addr] = Parquet(Merge(d[addr], GroupOf(df, Head(years))))],
                         appid, df, Tail(years))

CompleteWrite(d, appid, records) ==
    WriteGroups(d, appid, DataFrame(appid, records),
                GroupKeys(DataFrame(appid, records)))

\* Iterations, by what the log says of them.
Iterations       == 1..Len(log)
Handled(i)       == i < idx
NoIdentityItems  == {i \in Iterations : log[i].lookup \notin {"none", "found"}}
NoHistoryItems   == {i \in Iterations :
                        log[i].fetch \in {"body", "non200", "exception"}
                        /\ log[i].records = <<>>}
RaisedItems      == {i \in Iterations :
                        log[i].fetch = "not_iterable" \/ log[i].store = "raised"}
WrittenItems     == {i \in Iterations : log[i].store = "returned"}

PartitionsOf(records) == Cardinality({YearOf(r.timestamp) : r \in RowSet([rows |-> records])})

RECURSIVE PartitionsWritten(_)
PartitionsWritten(n) ==
    IF n = 0 THEN 0
    ELSE PartitionsWritten(n - 1)
         + (IF n \in WrittenItems /\ Handled(n) THEN PartitionsOf(log[n].records) ELSE 0)

\* Each counter of stats counts the iterations of its kind that are over.
StatsMatchLog ==
    /\ stats.sin_itad_id = Cardinality({i \in NoIdentityItems : Handled(i)})
    /\ stats.sin_historial = Cardinality({i \in NoHistoryItems : Handled(i)})
    /\ stats.errores = Cardinality({i \in RaisedItems : Handled(i)})
    /\ stats.procesados = Cardinality({i \in WrittenItems : Handled(i)})
    /\ stats.parquets_escritos = PartitionsWritten(Len(log))

UntouchedPartitions(appid) ==
    \A y \in Years : disk[PartitionPath(y, appid)] = disk_start[PartitionPath(y, appid)]

PermanentFailures == {i \in Iterations : log[i].lookup = "status_4xx"}

LoopInOrder ==
    /\ pc \notin {"idle", "start", "aborted"} =>
          /\ Len(visited) = (IF pc \in {"loop", "done"} THEN idx - 1 ELSE idx)
          /\ Len(visited) <= Len(apps)
          /\ \A i \in 1..Len(visited) : visited[i] = apps[i].appid
    /\ pc = "done" => Len(visited) = Len(apps)
    /\ pc \notin {"idle", "done", "aborted"} => ENABLED Next
    /\ stats.errores = Cardinality({i \in RaisedItems : Handled(i)})

\* C7: LoopInOrder holds throughout every run, whatever the stages got and
\* wherever an exception was raised, and a run that has its candidates
\* reaches the summary.
C7_NeverAborts == []LoopInOrder /\ (pc = "loop" ~> pc = "done")

\* A run reached its summary after write_parquet raised for the first
\* candidate and returned for the second.
C7_Witness ==
    /\ pc = "done"
    /\ Len(apps) = 2
    /\ log[1].store = "raised"
    /\ log[2].store = "returned"
    /\ stats.errores = 1

NotFoundOutcomes == {"not_found", "status_4xx", "status_5xx"}

\* C8: an iteration whose lookup got a non-200 answer or an answer without
\* a mapped id is over at once; it fetched no history, called no write and
\* left the partitions of its appid as they were; and the counters are those
\* of the log, so that it added 1 to sin_itad_id and nothing to the others.
C8_NotFoundIsSkip ==
    \A i \in Iterations :
        log[i].lookup \in NotFoundOutcomes =>
            /\ Handled(i)
            /\ log[i].fetch = "none"
            /\ log[i].store = "none"
            /\ UntouchedPartitions(visited[i])
            /\ i \in NoIdentityItems
            /\ pc \in {"loop", "done"} => StatsMatchLog

\* The lookup of the first candidate found no id, and the run went on to
\* write the second candidate.
C8_Witness ==
    /\ pc = "done"
    /\ Len(log) = 2
    /\ log[1].lookup = "not_found"
    /\ log[2].store = "returned"
    /\ stats.sin_itad_id = 1
    /\ stats.procesados = 1

\* C11 (as claimed): with a limit of 0 or less the selector returns no
\* candidate list and the run takes no candidate.
C11_LimitValidation ==
    top_n <= 0 => (sel_pc # "get_top_apps" /\ visited = <<>>)

\* C12: when the population cannot be fetched the run is over at once, with
\* the exception: no candidate was selected or taken, no stage ran, the
\* counters and the disk are as at the start, no step follows (so no
\* summary); and a run is aborted in no other way.
C12_SourceUnavailableIsFatal ==
    /\ sel_pc = "unavailable" =>
          /\ pc = "aborted"
          /\ apps = <<>>
          /\ visited = <<>>
          /\ log = <<>>
          /\ stats = ZeroStats
          /\ disk = disk_start
          /\ wp_pc = "idle"
          /\ ~ ENABLED Next
    /\ pc = "aborted" => sel_pc = "unavailable"

\* The source failed for a run that had candidates to offer and an output
\* directory holding data.
C12_Witness ==
    /\ sel_pc = "unavailable"
    /\ pc = "aborted"
    /\ Len(population) = 2
    /\ top_n = 2
    /\ disk_start = PriorDisk

\* ------------------------------------------------- one call through a session
\* The sessions of the two programs and the functions that call through them.
Sessions == {"price_history", "collector"}

Stages(session) ==
    IF session = "price_history"
    THEN {"get_top_apps", "is_game", "get_itad_id", "get_price_history"}
    ELSE {"get_most_rated_appids", "get_app_details", "get_review_data"}

\* How one attempt of a request can end.
AttemptOutcomes ==
    {"status_200", "status_4xx", "status_429", "status_5xx", "network"}

\* status_forcelist of each session: 429 is in make_session's list only.
StatusForcelist(session) ==
    IF session = "price_history"
    THEN {"status_429", "status_5xx"}
    ELSE {"status_5xx"}

RetryTotal(session) ==
    IF session = "price_history" THEN RetryTotalPriceHistory
    ELSE RetryTotalCollector

RetryableAlways(session, has_retry, outcome) == TRUE

\* The attempts the mounted adapter counts against Retry.total: connection
\* and read errors, and the statuses of the forcelist. Without urllib3's
\* Retry no adapter is mounted and nothing is retried.
Retryable(session, has_retry, outcome) ==
    /\ has_retry
    /\ outcome = "network" \/ outcome \in StatusForcelist(session)

\* The functions that wrap their request in try/except Exception.
StageCatches(stage) == stage \in {"is_game", "get_itad_id", "get_price_history"}

\* The functions that call raise_for_status() outside any try.
RaisesForStatus(stage) == stage \in {"get_top_apps", "get_most_rated_appids"}

RetryInit ==
    /\ rt_session \in Sessions
    /\ rt_stage \in Stages(rt_session)
    /\ rt_has_retry \in BOOLEAN
    /\ rt_left = IF rt_has_retry THEN RetryTotal(rt_session) ELSE 0
    /\ rt_trace = <<>>
    /\ rt_pc = "send"
    /\ rt_result = "none"
    /\ StoreIdle
    /\ SelIdle
    /\ MainIdle
    /\ CsvIdle

\* One attempt of session.get: the response is returned, or the attempt is
\* retried while the budget lasts, or the session raises.
RtSend ==
    /\ rt_pc = "send"
    /\ \E outcome \in AttemptOutcomes :
          /\ rt_trace' = Append(rt_trace, outcome)
          /\ IF Retryable(rt_session, rt_has_retry, outcome)
             THEN IF rt_left > 0
                  THEN rt_left' = rt_left - 1 /\ rt_pc' = "send"
                  ELSE rt_left' = rt_left /\ rt_pc' = "raised"
             ELSE /\ rt_left' = rt_left
                  /\ rt_pc' = IF outcome = "network" THEN "raised"
                              ELSE "responded"
    /\ UNCHANGED <<rt_session, rt_stage, rt_has_retry, rt_result>>

\* What the calling function does with what session.get gave it.
RtStage ==
    /\ rt_pc \in {"raised", "responded"}
    /\ rt_result' =
          IF rt_pc = "raised"
          THEN IF StageCatches(rt_stage) THEN "value" ELSE "exception"
          ELSE IF /\ RaisesForStatus(rt_stage)
                  /\ rt_trace[Len(rt_trace)] # "status_200"
               THEN "exception"
               ELSE "value"
    /\ rt_pc' = "done"
    /\ UNCHANGED <<rt_session, rt_stage, rt_has_retry, rt_left, rt_trace>>

RetryNext ==
    /\ RtSend \/ RtStage
    /\ UNCHANGED <<storeVars, selVars, mainVars, csvVars>>

SpecRetry == RetryInit /\ [][RetryNext]_vars

\* The outcomes that count as transient: network failure, 429, 5xx.
C13_Transient == {"network", "status_429", "status_5xx"}

\* At most the session's number of retries, and only after transient outcomes.
C13_Bounded ==
    /\ rt_session = "price_history" =>
          Len(rt_trace) <= RetryTotalPriceHistory + 1
    /\ rt_session = "collector" =>
          Len(rt_trace) <= RetryTotalCollector + 1
    /\ \A i \in 1..(Len(rt_trace) - 1) : rt_trace[i] \in C13_Transient

\* The call has ended with the retries used up on a transient outcome.
C13_Exhausted ==
    /\ rt_pc = "done"
    /\ rt_has_retry
    /\ \/ /\ rt_session = "price_history"
          /\ Len(rt_trace) = RetryTotalPriceHistory + 1
          /\ rt_trace[Len(rt_trace)] \in C13_Transient
       \/ /\ rt_session = "collector"
          /\ Len(rt_trace) = RetryTotalCollector + 1
          /\ rt_trace[Len(rt_trace)] \in {"network", "status_5xx"}

\* C13 (as claimed): a call is retried at most the session's bound of times
\* (4 for price history, 3 for the collector), only transient outcomes are
\* retried, and after exhaustion every calling function ends with a value
\* and no exception leaves it.
C13_ExhaustionIsValue ==
    /\ C13_Bounded
    /\ C13_Exhausted => rt_result = "value"

\* C13: a call is retried at most the session's bound of times (4 for price
\* history, 3 for the collector) and only transient outcomes are retried;
\* after exhaustion the session raises, is_game, get_itad_id and
\* get_price_history turn that into their empty value, and the exception
\* leaves get_top_apps and the collector's functions.
C13_BoundedRetry ==
    /\ C13_Bounded
    /\ C13_Exhausted =>
          rt_result = IF rt_stage \in {"is_game", "get_itad_id",
                                       "get_price_history"}
                      THEN "value" ELSE "exception"

C13_Witness ==
    /\ C13_Exhausted
    /\ rt_session = "price_history"
    /\ rt_stage = "get_itad_id"
    /\ rt_trace = <<"status_429", "network", "status_5xx", "status_5xx",
                    "status_429">>
    /\ rt_result = "value"

\* --------------------------------------------------------------- pacing
\* The calls the loop of main() makes for one candidate.
ItemCalls == {"is_game", "get_itad_id", "get_price_history"}

\* C14 (as claimed): whenever an outbound call follows a game check, an
\* identity lookup or a history fetch, at least the configured delay was
\* slept between the end of the one and the start of the other.
C14_Pacing ==
    gap.from \in ItemCalls => gap.slept >= DelayUnits

\* ------------------------------------------------------------ empty batch
\* C15: write_parquet called with no records returns 0 and leaves the disk
\* as it found it: no directory made, no file made, no partition changed.
C15_EmptyBatchNoOp ==
    (calls # "none" /\ wp_records = <<>>) =>
        /\ wp_pc = "ret"
        /\ wp_written = 0
        /\ disk = disk0

C15_Witness ==
    /\ calls = "two"
    /\ wp_records = <<>>
    /\ wp_pc = "ret"
    /\ \E a \in Addresses : disk[a].kind = "parquet"
    /\ \E a \in Addresses : disk[a].kind = "nodir"

\* --------------------------------------------------------- stage ordering
\* The stages an iteration can go through, in the order of the loop body.
C16_StageOrder ==
    IF skip_game_check
    THEN <<"lookup", "fetch", "merge">>
    ELSE <<"game_check", "lookup", "fetch", "merge">>

C16_Did(i, stage) == \E k \in 1..Len(log[i].trail) : log[i].trail[k] = stage

\* How a finished iteration ended: skipped, done or error.
C16_Terminal(i) ==
    /\ Handled(i)
    /\ \/ log[i].game \notin {"none", "game"}
       \/ log[i].lookup \notin {"none", "found"}
       \/ log[i].fetch \in {"body", "non200", "exception"} /\ log[i].records = <<>>
       \/ log[i].fetch = "not_iterable"
       \/ log[i].store \in {"returned", "raised"}

\* C16: the stages of every iteration are a prefix of game check, lookup,
\* fetch, merge, each at most once; the fetch follows a lookup that found
\* an id, the merge follows a fetch that returned at least one record, and
\* an iteration starts only when all earlier ones have ended.
C16_StageOrdering ==
    /\ \A i \in Iterations :
          /\ Len(log[i].trail) <= Len(C16_StageOrder)
          /\ log[i].trail = SubSeq(C16_StageOrder, 1, Len(log[i].trail))
          /\ C16_Did(i, "fetch") => log[i].lookup = "found"
          /\ C16_Did(i, "merge") =>
                log[i].fetch = "body" /\ Len(log[i].records) >= 1
          /\ i < Len(log) => C16_Terminal(i)
    /\ Len(log) = Len(visited)
    /\ pc \in {"loop", "done"} => \A i \in Iterations : C16_Terminal(i)

\* A run of two candidates: the first went through every stage, the second
\* ended at a lookup without an id.
C16_Witness ==
    /\ pc = "done"
    /\ Len(log) = 2
    /\ log[1].trail = <<"game_check", "lookup", "fetch", "merge">>
    /\ log[1].store = "returned"
    /\ log[2].trail = <<"game_check", "lookup">>

\* ------------------------------------------------ lookup that gave up
\* The iterations whose lookup request raised: the retries of the session
\* were used up, or the connection failed.
C17_LookupFailed == {i \in Iterations : log[i].lookup = "exception"}

\* C17 (as claimed): an iteration whose identity lookup failed after the
\* retries were used up is counted in errores and not in sin_itad_id, and
\* the loop goes on with the next candidate.
C17_ExhaustedLookupIsError ==
    pc \in {"loop", "done"} =>
        /\ \A i \in C17_LookupFailed : Handled(i)
        /\ stats.errores =
              Cardinality(RaisedItems \cup C17_LookupFailed)
        /\ stats.sin_itad_id =
              Cardinality(NoIdentityItems \ C17_LookupFailed)

\* -------------------------------------------------- the fetch boundary
\* C18 (as claimed): whatever the history source answers, get_price_history
\* returns a list: no iteration is in the handler of main() because of its
\* fetch, and the only iterations counted in errores are those whose
\* write_parquet raised.
C18_NormalizationNeverRaises ==
    /\ pc # "except"
    /\ \A i \in Iterations :
          log[i].fetch # "none" =>
              \/ log[i].records = <<>> /\ log[i].store = "none" /\ Handled(i)
              \/ log[i].records # <<>> /\ C16_Did(i, "merge")
    /\ pc \in {"loop", "done"} =>
          stats.errores = Cardinality({i \in Iterations : log[i].store = "raised"})

\* ------------------------------------------------- conflict on the key
\* The first row of a file that has key k.
C19_FirstWithKey(file, k) ==
    file.rows[CHOOSE i \in 1..Len(file.rows) :
                 /\ RowKey(file.rows[i]) = k
                 /\ \A j \in 1..(i - 1) : RowKey(file.rows[j]) # k]

\* C19: when write_parquet has returned, every key that was stored in a
\* partition when the call started and that the batch brought again is
\* stored once, and its row is the row that was stored first, with the
\* values it had: the batch's row for that key is dropped.
C19_FirstOccurrenceWins ==
    wp_pc = "ret" =>
        \A addr \in Addresses :
            disk0[addr].kind = "parquet" =>
                \A k \in StoredKeys(disk0[addr]) \cap
                         BatchKeysAt(wp_appid, wp_records, addr) :
                    /\ disk[addr].kind = "parquet"
                    /\ Cardinality({i \in 1..Len(disk[addr].rows) :
                                      RowKey(disk[addr].rows[i]) = k}) = 1
                    /\ \A i \in 1..Len(disk[addr].rows) :
                          RowKey(disk[addr].rows[i]) = k =>
                              disk[addr].rows[i] = C19_FirstWithKey(disk0[addr], k)

\* The partition held R1; the batch brought R2, same key, another price;
\* the partition still holds R1 alone.
C19_Witness ==
    /\ wp_pc = "ret"
    /\ calls = "two"
    /\ wp_appid = 1
    /\ wp_records = <<R2>>
    /\ disk0[PartitionPath(2023, 1)] = Parquet(DataFrame(1, <<R1>>))
    /\ disk[PartitionPath(2023, 1)] = Parquet(DataFrame(1, <<R1>>))

\* ----------------------------------------------------- frame of a write
\* The years of the call whose group has been written.
C20_YearsWritten ==
    {y \in Years : /\ \E i \in 1..Len(wp_df) : wp_df[i].year = y
                   /\ \A i \in 1..Len(wp_years) : wp_years[i] # y}

\* The partitions of other appids are as the call found them, and every
\* partition the call has written holds its merged rows, whether the call
\* went on, returned or raised.
C20_Frame ==
    calls # "none" =>
        /\ \A addr \in Addresses :
              addr[2] # wp_appid => disk[addr] = disk0[addr]
        /\ \A y \in C20_YearsWritten :
              disk[PartitionPath(y, wp_appid)] =
                  Parquet(Merge(disk0[PartitionPath(y, wp_appid)],
                                GroupOf(wp_df, y)))

\* C20 (as claimed): a call of write_parquet leaves the partitions of other
\* appids untouched and keeps what it has written when it fails; and a call
\* that repeats the batch of a call that raised can read what that call
\* left, and on return the partitions are those of one successful write.
C20_WriteFrameAndHeal ==
    /\ C20_Frame
    /\ rerun =>
          /\ (wp_pc = "loop" /\ wp_years # <<>>) =>
                disk[CurrentAddr].kind # "partial"
          /\ wp_pc = "ret" =>
                disk = CompleteWrite(EmptyDisk, wp_appid, wp_records)

\* ------------------------------------------------------ inter-item delay
\* The latest outbound call was the first call of an iteration that is not
\* the first of the run.
C21_FirstCallOfNextItem ==
    /\ Len(log) >= 2
    /\ Len(log[Len(log)].trail) = 1
    /\ gap.from \in ItemCalls

\* C21 (as claimed): however the iteration before it ended, the first
\* outbound call of an iteration starts at least the full configured delay
\* after the last outbound call of the iteration before.
C21_InterItemDelay ==
    C21_FirstCallOfNextItem => gap.slept >= DelayUnits

HeaderGenres  == <<"appId", "genre">>
HeaderPricing == <<"appId", "price">>
Headers == {HeaderGenres, HeaderPricing}

Row1 == <<"1", "a">>
Row2 == <<"2", "b">>
RowBatches == {<<>>, <<Row1>>, <<Row2, Row1>>}

\* next(csv.reader(f), None): the first line, or None for a file without
\* lines; None is unequal to every header.
FirstLine(file) == IF file.lines = <<>> THEN <<"None">> ELSE Head(file.lines)

\* How shutil.move and the writes can end.
MoveOutcomes  == {"moved", "failed"}
WriteOutcomes == {"written", "raised"}

\* Lines 108-111: shutil.move(path, path + '.bak'); an exception of the
\* move is swallowed and both files stay as they are.
MoveToBak(file, bak, outcome) ==
    IF outcome = "moved"
    THEN [file |-> NoCsv, bak |-> file]
    ELSE [file |-> file, bak |-> bak]

\* Lines 71-86: header and rows go to a temporary file that replaces path;
\* when a step raises, path is left as it was.
AtomicWriteFull(file, header, rows, outcome) ==
    IF outcome = "written" THEN Csv(<<header>> \o rows) ELSE file

CsvCall(header, rows) ==
    /\ csv_calls < MaxAppends
    /\ csv_calls' = csv_calls + 1
    /\ csv_header' = header
    /\ csv_rows' = rows
    /\ csv_before' = csv_file

\* Lines 96-97: no rows, nothing is done.
CsvNoRows ==
    \E header \in Headers :
        /\ CsvCall(header, <<>>)
        /\ csv_result' = "returned"
        /\ UNCHANGED <<csv_file, csv_bak>>

\* Lines 119-120: there is no file at path.
CsvCreate ==
    \E header \in Headers, rows \in RowBatches, write \in WriteOutcomes :
        /\ rows # <<>>
        /\ ~ csv_file.exists
        /\ CsvCall(header, rows)
        /\ csv_file' = AtomicWriteFull(csv_file, header, rows, write)
        /\ csv_result' = IF write = "written" THEN "returned" ELSE "raised"
        /\ UNCHANGED csv_bak

\* Lines 99-113: the first line of the file is not the header.
CsvReplace ==
    \E header \in Headers, rows \in RowBatches,
       move \in MoveOutcomes, write \in WriteOutcomes :
        /\ rows # <<>>
        /\ csv_file.exists
        /\ FirstLine(csv_file) # header
        /\ CsvCall(header, rows)
        /\ LET moved == MoveToBak(csv_file, csv_bak, move)
           IN  /\ csv_bak' = moved.bak
               /\ csv_file' = AtomicWriteFull(moved.file, header, rows, write)
        /\ csv_result' = IF write = "written" THEN "returned" ELSE "raised"

\* Lines 115-118: the header matches; the rows are appended.
CsvAppend ==
    \E header \in Headers, rows \in RowBatches, write \in WriteOutcomes :
        /\ rows # <<>>
        /\ csv_file.exists
        /\ FirstLine(csv_file) = header
        /\ CsvCall(header, rows)
        /\ csv_file' = IF write = "written"
                       THEN Csv(csv_file.lines \o rows) ELSE csv_file
        /\ csv_result' = IF write = "written" THEN "returned" ELSE "raised"
        /\ UNCHANGED csv_bak

CsvInit ==
    /\ CsvIdle
    /\ StoreIdle
    /\ SelIdle
    /\ MainIdle
    /\ RetryIdle

CsvNext ==
    /\ CsvNoRows \/ CsvCreate \/ CsvReplace \/ CsvAppend
    /\ UNCHANGED <<storeVars, selVars, mainVars, rtVars>>

SpecCsv == CsvInit /\ [][CsvNext]_vars

\* C23 (as claimed): when a call with rows has returned, the first line of
\* the file is the header of the call; if the file had that header, its
\* lines are kept and the rows follow them; if it had another first line,
\* what it held is at path + '.bak' and the file is the header and the rows.
C23_HeaderInvariant ==
    (csv_result = "returned" /\ csv_rows # <<>>) =>
        /\ csv_file.exists
        /\ FirstLine(csv_file) = csv_header
        /\ (csv_before.exists /\ FirstLine(csv_before) = csv_header) =>
              csv_file.lines = csv_before.lines \o csv_rows
        /\ (csv_before.exists /\ FirstLine(csv_before) # csv_header) =>
              /\ csv_bak = csv_before
              /\ csv_file.lines = <<csv_header>> \o csv_rows
        /\ ~ csv_before.exists =>
              csv_file.lines = <<csv_header>> \o csv_rows

\* ------------------------------------------------------------- RunStats
\* The four counters that count candidates.
C24_ItemCounters == {"procesados", "sin_itad_id", "sin_historial", "errores"}

\* In how many of the four kinds the log puts iteration i.
C24_KindsOf(i) ==
    (IF i \in WrittenItems THEN 1 ELSE 0)
    + (IF i \in NoIdentityItems THEN 1 ELSE 0)
    + (IF i \in NoHistoryItems THEN 1 ELSE 0)
    + (IF i \in RaisedItems THEN 1 ELSE 0)

\* The candidates the game check did not skip.
C24_PastPreFilter == {i \in Iterations : log[i].game \in {"none", "game"}}

C24_Accounting ==
    /\ StatsMatchLog
    /\ \A i \in Iterations : C24_KindsOf(i) <= 1
    /\ \A i \in Iterations :
          (Handled(i) /\ i \in C24_PastPreFilter) => C24_KindsOf(i) = 1
    /\ \A i \in Iterations :
          i \notin C24_PastPreFilter => C24_KindsOf(i) = 0
    /\ stats.parquets_escritos >= stats.procesados
    /\ pc = "done" =>
          /\ Len(log) = Len(apps)
          /\ stats.procesados + stats.sin_itad_id + stats.sin_historial
               + stats.errores = Cardinality(C24_PastPreFilter)

C24_Monotone ==
    /\ \A c \in C24_ItemCounters : stats'[c] >= stats[c]
    /\ stats'.parquets_escritos >= stats.parquets_escritos
    /\ \A c \in C24_ItemCounters : stats'[c] <= stats[c] + 1
    /\ stats'.procesados + stats'.sin_itad_id + stats'.sin_historial
         + stats'.errores
       <= stats.procesados + stats.sin_itad_id + stats.sin_historial
            + stats.errores + 1

\* C24: throughout a run every counter is the number of finished iterations
\* of its kind, an iteration is of at most one kind and, once finished and
\* not skipped by the game check, of exactly one; no step lowers a counter
\* or adds more than 1 to the four together; parquets_escritos is at least
\* procesados; and at the summary the four add up to the candidates the
\* game check did not skip, all of them when it is off.
C24_RunStatsAccounting == [] C24_Accounting /\ [][C24_Monotone]_vars

\* A run of two candidates ended: one skipped by the game check, one
\* written to two partitions.
C24_Witness ==
    /\ pc = "done"
    /\ Len(log) = 2
    /\ log[1].game = "not_game"
    /\ log[2].store = "returned"
    /\ stats.procesados = 1
    /\ stats.parquets_escritos = 2
    /\ stats.sin_itad_id + stats.sin_historial + stats.errores = 0

====
